---- MODULE Spec2Model ----
(***************************************************************************)
(* A model of examples/realign_demos.py: the four subject factories        *)
(* (generators) and the generic runner _demo_runner that drives one        *)
(* MRIMotionCorrection engine per subject.                                 *)
(*                                                                         *)
(* Python strings are modelled as sequences of one-character strings, so   *)
(* that the substring tests ("session%i" % session in x, subject_id in x)  *)
(* and os.path.dirname / basename / join are computed, not assumed.        *)
(*                                                                         *)
(* Spec is one demo function run from its fetch to its end. SpecFactory is *)
(* a demo's subject_factory called directly: three generator objects over  *)
(* one listing, their next() calls interleaved.                            *)
(***************************************************************************)
EXTENDS Integers, Sequences, FiniteSets, TLC

\* ------------------------------------------------------------- bounds
\* longest raw listing nyu_data.func that is enumerated
MaxPaths == 2
\* largest session index passed to subject_factory(session)
MaxSession == 2
\* longest list mrimc._rp_filenames_ an engine exposes after transform
MaxRp == 2

\* ------------------------------------------------------------ strings
Range(s) == {s[i] : i \in 1..Len(s)}

\* Python: s in t (substring test); the empty string is in every string
Contains(s, t) ==
    \E i \in 1..(Len(t) - Len(s) + 1) : SubSeq(t, i, i + Len(s) - 1) = s

\* Python: t.startswith(s), t.endswith(s)
StartsWith(t, s) == Len(s) <= Len(t) /\ SubSeq(t, 1, Len(s)) = s
EndsWith(t, s) == Len(s) <= Len(t) /\ SubSeq(t, Len(t) - Len(s) + 1, Len(t)) = s

\* the last position at or before i where p holds a slash, 0 when there is none
RECURSIVE LastSlash(_, _)
LastSlash(p, i) == IF i = 0 \/ p[i] = "/" THEN i ELSE LastSlash(p, i - 1)

\* Python: p.rfind('/') + 1 (0 when p holds no slash)
RFindSlash(p) == LastSlash(p, Len(p))

\* Python: head.rstrip('/')
RECURSIVE RStripSlash(_)
RStripSlash(p) ==
    IF p # <<>> /\ p[Len(p)] = "/" THEN RStripSlash(SubSeq(p, 1, Len(p) - 1)) ELSE p

\* posixpath.basename(p): p[i:] with i = p.rfind('/') + 1
Basename(p) == SubSeq(p, RFindSlash(p) + 1, Len(p))

\* posixpath.dirname(p): p[:i], its trailing slashes stripped unless it is all slashes
Dirname(p) ==
    LET head == SubSeq(p, 1, RFindSlash(p))
    IN  IF head # <<>> /\ Range(head) # {"/"} THEN RStripSlash(head) ELSE head

\* posixpath.join(a, b), one step of the fold over its arguments
Join2(a, b) ==
    IF StartsWith(b, <<"/">>) THEN b
    ELSE IF a = <<>> \/ EndsWith(a, <<"/">>) THEN a \o b
    ELSE a \o <<"/">> \o b

\* posixpath.join(a, b, c)
Join3(a, b, c) == Join2(Join2(a, b), c)

\* "%i" % n for n >= 0: the decimal digits of n
DigitChar(d) == <<"0", "1", "2", "3", "4", "5", "6", "7", "8", "9">>[d + 1]

RECURSIVE IntToStr(_)
IntToStr(n) == IF n < 10 THEN <<DigitChar(n)>> ELSE IntToStr(n \div 10) \o <<DigitChar(n % 10)>>

\* "session%i" % session
SessionMarker(session) == <<"s", "e", "s", "s", "i", "o", "n">> \o IntToStr(session)

\* ------------------------------------------------------ the raw paths
\* path components, and the text of a path made of them
cD == <<"d">>
cS1 == <<"s", "1">>
cS2 == <<"s", "2">>
cS12 == <<"s", "1", "2">>
cFunc == <<"f", "u", "n", "c">>
cAnat == <<"a", "n", "a", "t">>
cFile == <<"f", ".", "n", "i", "i">>

RECURSIVE JoinAll(_)
JoinAll(cs) == IF Len(cs) = 1 THEN cs[1] ELSE cs[1] \o <<"/">> \o JoinAll(Tail(cs))

AbsPath(cs) == <<"/">> \o JoinAll(cs)

\* The paths a raw listing is drawn from: the layout of the NYU dataset
\* (<dir>/session<n>/<subject>/func/<file>), two files of one subject, a
\* subject whose name extends another's, files directly under the subject
\* directory, and a file directly under the session directory.
PathPool ==
    { AbsPath(<<cD, SessionMarker(1), cS1, cFunc, cFile>>),
      AbsPath(<<cD, SessionMarker(1), cS2, cFunc, cFile>>),
      AbsPath(<<cD, SessionMarker(2), cS1, cFunc, cFile>>),
      AbsPath(<<cD, SessionMarker(1), cS1, cAnat, cFile>>),
      AbsPath(<<cD, SessionMarker(1), cS12, cFunc, cFile>>),
      AbsPath(<<cD, SessionMarker(1), cS1, cFile>>),
      AbsPath(<<cD, SessionMarker(1), cS2, cFile>>),
      JoinAll(<<SessionMarker(1), cFile>>) }

\* every list of at most MaxPaths paths
Listings == UNION {[1..n -> PathPool] : n \in 0..MaxPaths}

\* ---------------------------------------------------- program constants
\* subject_factory(session=1): the session demo_nyu_rest's call leaves defaulted
DefaultSession == 1
\* _demo_runner(..., n_sessions=2) in demo_spm_multimodal_fmri
MultimodalSessions == 2

\* output_dir arguments of the demos: "/o" has the shape of the defaults
\* (absolute, no trailing slash), "o/" takes the other branch of join
OutputDirs == { <<"/", "o">>, <<"o", "/">> }

\* what the fetchers return: existing file paths (docstring of _demo_runner)
FslFunc == <<"/", "f", "s", "l">>
SpmFunc1 == <<"/", "r", "1">>
SpmFunc2 == <<"/", "r", "2">>
AudFunc == <<"/", "a", "u", "d">>

Demos == {"nyu", "fsl", "multimodal", "auditory"}

\* the dataset_id each demo hands to _demo_runner; "direct" is a call of
\* _demo_runner by other code, with the label of the docstring
DatasetId(d) ==
    CASE d = "nyu" -> "NYU resting state"
      [] d = "fsl" -> "FSL FEEDS"
      [] d = "multimodal" -> "SPM Multimodal fMRI faces vs scrambled"
      [] d = "auditory" -> "SPM single-subject Auditory"
      [] d = "direct" -> "HAXBY!"

\* RealignKwargs with the keyword arguments not forwarded
RealignKwargsDropped(d) == {}

\* **spm_realign_kwargs of each demo's call, as a set of <<key, value>>
RealignKwargs(d) == IF d = "multimodal" THEN {<<"n_sessions", MultimodalSessions>>} ELSE {}

\* ------------------------------------------------------- SubjectData
\* func is a string or a list of strings: isList tells which, paths holds it
StrFunc(p) == [isList |-> FALSE, paths |-> <<p>>]
ListFunc(ps) == [isList |-> TRUE, paths |-> ps]

SubjectData(subject_id, func, output_dir) ==
    [subject_id |-> subject_id, func |-> func, output_dir |-> output_dir]

\* the value of a variable that holds no record yet
NoSubject == SubjectData(<<>>, ListFunc(<<>>), <<>>)

\* "sub001", the subject of the three single-subject demos
Sub001 == <<"s", "u", "b", "0", "0", "1">>

\* ------------------------------------------- demo_nyu_rest.subject_factory
\* SessionFunc with the marker "session" of every session
SessionFuncAnySession(nyu_func, session) ==
    SelectSeq(nyu_func, LAMBDA x : Contains(<<"s", "e", "s", "s", "i", "o", "n">>, x))

\* session_func = [x for x in nyu_data.func if "session%i" % session in x]
SessionFunc(nyu_func, session) ==
    SelectSeq(nyu_func, LAMBDA x : Contains(SessionMarker(session), x))

\* SubjectIds with one dirname too few: the parent directory's name
SubjectIdsParentDir(session_func) ==
    {Basename(Dirname(session_func[i])) : i \in 1..Len(session_func)}

\* set([os.path.basename(os.path.dirname(os.path.dirname(x))) for x in session_func])
SubjectIds(session_func) ==
    {Basename(Dirname(Dirname(session_func[i]))) : i \in 1..Len(session_func)}

\* func = [x for x in session_func if subject_id in x]
FuncOf(session_func, subject_id) ==
    SelectSeq(session_func, LAMBDA x : Contains(subject_id, x))

\* AssertUnique weakened to "some path matches"
AssertNonEmpty(func) == Len(func) >= 1

\* assert len(func) == 1
AssertUnique(func) == Len(func) = 1

\* NyuRecord with the subject left out of output_dir
NyuRecordSessionDir(subject_id, func, out, session) ==
    SubjectData(subject_id, StrFunc(func[1]), Join2(out, SessionMarker(session)))

\* NyuRecord with the session left out of output_dir
NyuRecordNoSession(subject_id, func, out, session) ==
    SubjectData(subject_id, StrFunc(func[1]), Join2(out, subject_id))

\* SubjectData(subject_id=subject_id, func=func[0],
\*             output_dir=os.path.join(output_dir, "session%i" % session, subject_id))
NyuRecord(subject_id, func, out, session) ==
    SubjectData(subject_id, StrFunc(func[1]), Join3(out, SessionMarker(session), subject_id))

\* the one record of each single-subject factory
SingleRecord(d, out) ==
    SubjectData(Sub001,
                CASE d = "fsl" -> StrFunc(FslFunc)
                  [] d = "multimodal" -> ListFunc(<<SpmFunc1, SpmFunc2>>)
                  [] d = "auditory" -> ListFunc(<<AudFunc>>),
                Join2(out, Sub001))

\* ----------------------------------------------------- generator objects
\* A generator object: where its frame stands (pc) and the frame's locals.
\*   "start"  created, body not entered       "loop"  suspended at the yield
\*   "done"   body returned (StopIteration)   "raised" body raised
NewGen(d, session) ==
    [pc |-> "start", demo |-> d, session |-> session, session_func |-> <<>>,
     todo |-> <<>>, subject_id |-> <<>>, func |-> <<>>]

\* the result of one next(): the generator afterwards, what came out, the record
GenOut(g, kind, rec) == [gen |-> g, kind |-> kind, rec |-> rec]

\* the for loop of the NYU factory, from the head of the loop to the next
\* yield, to the assert failing or to the set being exhausted
NyuLoop(g, out) ==
    IF g.todo = <<>> THEN GenOut([g EXCEPT !.pc = "done"], "stop", NoSubject)
    ELSE LET subject_id == Head(g.todo)
             func == FuncOf(g.session_func, subject_id)
             h == [g EXCEPT !.todo = Tail(g.todo), !.subject_id = subject_id, !.func = func]
         IN  IF AssertUnique(func)
             THEN GenOut([h EXCEPT !.pc = "loop"], "yield",
                         NyuRecord(subject_id, func, out, g.session))
             ELSE GenOut([h EXCEPT !.pc = "raised"], "raise", NoSubject)

\* ------------------------------------------------------------- state
VARIABLES
    demo,          \* which demo function runs
    nyu_func,      \* nyu_data.func, the raw listing (a list of path strings)
    output_dir,    \* the demo's output_dir argument
    set_order,     \* the order in which this interpreter iterates a set of ids
    pc,            \* where the demo stands: "fetch", then the lines of _demo_runner
    err,           \* the exception that left the demo, "none" while there is none
    subjects,      \* the generator object handed to _demo_runner
    yielded,       \* the records the for loop of _demo_runner has received
    subject_data,  \* the loop variable of _demo_runner
    mrimc,         \* the engine of the current subject
    plots,         \* what is left of zip(xrange(len(rp)), rp) in the inner loop
    calls,         \* every call made to the engine, the plotter and plt.show
    gens,          \* generator objects made by direct calls of a subject factory
    outs           \* what each of them has yielded

vars == <<demo, nyu_func, output_dir, set_order, pc, err, subjects, yielded,
          subject_data, mrimc, plots, calls, gens, outs>>

\* the exceptions a collaborator may raise
Errors == {"IOError", "ValueError"}

\* for subject_id in set([...]): the elements of S in this interpreter's order
SetIter(S) == SelectSeq(set_order, LAMBDA id : id \in S)

\* GenNext with a memory shared by all generator objects of the factory:
\* a subject some generator has yielded is not visited again
GenNextShared(g) ==
    CASE g.pc = "start" /\ g.demo = "nyu" ->
            LET session_func == SessionFunc(nyu_func, g.session)
                seen == UNION {{outs[i][j].subject_id : j \in 1..Len(outs[i])} : i \in DOMAIN outs}
            IN  NyuLoop([g EXCEPT !.session_func = session_func,
                                  !.todo = SetIter(SubjectIds(session_func) \ seen)],
                        output_dir)
      [] g.pc = "loop" /\ g.demo = "nyu" -> NyuLoop(g, output_dir)
      [] g.pc = "start" /\ g.demo # "nyu" ->
            GenOut([g EXCEPT !.pc = "loop"], "yield", SingleRecord(g.demo, output_dir))
      [] g.pc = "loop" /\ g.demo # "nyu" ->
            GenOut([g EXCEPT !.pc = "done"], "stop", NoSubject)
      [] OTHER -> GenOut(g, "stop", NoSubject)

\* GenNext with the records of the NYU factory all made before the first is
\* handed over (list(subject_factory())): a failing assert fails the first next()
GenNextEager(g) ==
    CASE g.demo = "direct" ->
            IF g.todo = <<>> THEN GenOut([g EXCEPT !.pc = "done"], "stop", NoSubject)
            ELSE GenOut([g EXCEPT !.pc = "loop", !.todo = Tail(g.todo)], "yield", Head(g.todo))
      [] g.pc = "start" /\ g.demo = "nyu" ->
            LET session_func == SessionFunc(nyu_func, g.session)
                ids == SetIter(SubjectIds(session_func))
                bad == SelectSeq(ids, LAMBDA id : ~AssertUnique(FuncOf(session_func, id)))
            IN  IF bad # <<>>
                THEN GenOut([g EXCEPT !.pc = "raised", !.session_func = session_func,
                                      !.subject_id = Head(bad),
                                      !.func = FuncOf(session_func, Head(bad))],
                            "raise", NoSubject)
                ELSE NyuLoop([g EXCEPT !.session_func = session_func, !.todo = ids],
                             output_dir)
      [] g.pc = "loop" /\ g.demo = "nyu" -> NyuLoop(g, output_dir)
      [] g.pc = "start" /\ g.demo # "nyu" ->
            GenOut([g EXCEPT !.pc = "loop"], "yield", SingleRecord(g.demo, output_dir))
      [] g.pc = "loop" /\ g.demo # "nyu" ->
            GenOut([g EXCEPT !.pc = "done"], "stop", NoSubject)
      [] OTHER -> GenOut(g, "stop", NoSubject)

\* next() on the iterator of a sequence handed to _demo_runner as it is
ListNext(g) ==
    IF g.todo = <<>> THEN GenOut([g EXCEPT !.pc = "done"], "stop", NoSubject)
    ELSE GenOut([g EXCEPT !.pc = "loop", !.todo = Tail(g.todo)], "yield", Head(g.todo))

\* next(g) on a generator object of a subject factory
GenNext(g) ==
    CASE g.demo = "direct" -> ListNext(g)
      [] g.pc = "start" /\ g.demo = "nyu" ->
            LET session_func == SessionFunc(nyu_func, g.session)
            IN  NyuLoop([g EXCEPT !.session_func = session_func,
                                  !.todo = SetIter(SubjectIds(session_func))],
                        output_dir)
      [] g.pc = "loop" /\ g.demo = "nyu" -> NyuLoop(g, output_dir)
      [] g.pc = "start" /\ g.demo # "nyu" ->
            GenOut([g EXCEPT !.pc = "loop"], "yield", SingleRecord(g.demo, output_dir))
      [] g.pc = "loop" /\ g.demo # "nyu" ->
            GenOut([g EXCEPT !.pc = "done"], "stop", NoSubject)
      [] OTHER -> GenOut(g, "stop", NoSubject)

\* the generator objects of the direct calls g1 = subject_factory(s),
\* g2 = subject_factory(t), g3 = subject_factory(s), with t another session
Invocations == {1, 2, 3}

\* a session other than s (s itself when there is one session only)
OtherSession(s) == (s % MaxSession) + 1

\* all orders of a finite set
Perms(S) == {f \in [1..Cardinality(S) -> S] : \A x \in S : \E i \in DOMAIN f : f[i] = x}

\* no engine yet
NoEngine == [id |-> 0, kwargs |-> {}, fitted |-> FALSE, rp |-> <<>>]

\* one logged call: the operation, the ordinal of the subject it serves, its
\* argument, how it ended ("ok" or the exception) and what it produced
Call(op, n, arg, res, out) == [op |-> op, n |-> n, arg |-> arg, res |-> res, out |-> out]

\* the environment a demo runs in: the dataset on disk, the arguments, the
\* interpreter's set order
InitEnv ==
    /\ demo \in Demos
    /\ nyu_func \in (IF demo = "nyu" THEN Listings ELSE {<<>>})
    /\ output_dir \in OutputDirs
    /\ set_order \in Perms(SubjectIds(nyu_func))

Init ==
    /\ InitEnv
    /\ pc = "fetch"
    /\ err = "none"
    /\ subjects = NewGen(demo, DefaultSession)
    /\ yielded = <<>>
    /\ subject_data = NoSubject
    /\ mrimc = NoEngine
    /\ plots = <<>>
    /\ calls = <<>>
    /\ gens = [i \in Invocations |-> NewGen(demo, DefaultSession)]
    /\ outs = [i \in Invocations |-> <<>>]

\* ------------------------------------------------------- _demo_runner
\* Raise with the loop body wrapped in try/except: the subject is skipped
RaiseSkipSubject(e) == pc' = "iter" /\ err' = err

\* an exception leaves _demo_runner and the demo: there is no try/except
Raise(e) == pc' = "raised" /\ err' = e

\* Goto with the for loop wrapped in an endless loop: exhaustion starts it again
GotoLoopForever(line) == pc' = (IF line = "returned" THEN "iter" ELSE line) /\ err' = err

\* a call returns: control goes on at the next line
Goto(line) == pc' = line /\ err' = err

\* the number of the subject in the loop
N == Len(yielded)

\* fetch_*(data_dir), then subject_factory() makes the generator object
Fetch ==
    /\ pc = "fetch"
    /\ \/ Goto("iter")
       \/ \E e \in Errors : Raise(e)
    /\ UNCHANGED <<demo, nyu_func, output_dir, set_order, subjects, yielded,
                   subject_data, mrimc, plots, calls, gens, outs>>

\* Iterate with a collision check: a record whose output_dir an earlier record
\* of the run had is passed over
IterateSkipCollision ==
    /\ pc = "iter"
    /\ \E r \in {GenNext(subjects)} :
           /\ subjects' = r.gen
           /\ \/ /\ r.kind = "yield"
                 /\ \A n \in 1..Len(yielded) : yielded[n].output_dir # r.rec.output_dir
                 /\ subject_data' = r.rec
                 /\ yielded' = Append(yielded, r.rec)
                 /\ Goto("construct")
              \/ /\ r.kind = "yield"
                 /\ \E n \in 1..Len(yielded) : yielded[n].output_dir = r.rec.output_dir
                 /\ Goto("iter")
                 /\ UNCHANGED <<subject_data, yielded>>
              \/ /\ r.kind = "stop"
                 /\ Goto("returned")
                 /\ UNCHANGED <<subject_data, yielded>>
              \/ /\ r.kind = "raise"
                 /\ Raise("AssertionError")
                 /\ UNCHANGED <<subject_data, yielded>>
    /\ UNCHANGED <<demo, nyu_func, output_dir, set_order, mrimc, plots, calls, gens, outs>>

\* for subject_data in subjects: one next() on the generator; the progress
\* line the loop body writes first (lines 43-45) changes no state kept here
Iterate ==
    /\ pc = "iter"
    /\ \E r \in {GenNext(subjects)} :
           /\ subjects' = r.gen
           /\ \/ /\ r.kind = "yield"
                 /\ subject_data' = r.rec
                 /\ yielded' = Append(yielded, r.rec)
                 /\ Goto("construct")
              \/ /\ r.kind = "stop"
                 /\ Goto("returned")
                 /\ UNCHANGED <<subject_data, yielded>>
              \/ /\ r.kind = "raise"
                 /\ Raise("AssertionError")
                 /\ UNCHANGED <<subject_data, yielded>>
    /\ UNCHANGED <<demo, nyu_func, output_dir, set_order, mrimc, plots, calls, gens, outs>>

\* MRIMotionCorrection with the construction hoisted out of the loop: one engine
\* is made for the first subject and used for all
MRIMotionCorrectionOnce(id, kwargs) ==
    IF mrimc = NoEngine
    THEN [id |-> id, kwargs |-> kwargs, fitted |-> FALSE, rp |-> <<>>]
    ELSE mrimc

\* MRIMotionCorrection(**spm_realign_kwargs): a new engine object, not fitted,
\* exposing no file; id tells the objects apart
MRIMotionCorrection(id, kwargs) == [id |-> id, kwargs |-> kwargs, fitted |-> FALSE, rp |-> <<>>]

\* mrimc = MRIMotionCorrection(**spm_realign_kwargs)
Construct ==
    /\ pc = "construct"
    /\ \/ /\ calls' = Append(calls, Call("construct", N, RealignKwargs(demo), "ok", <<>>))
          /\ mrimc' = MRIMotionCorrection(N, RealignKwargs(demo))
          /\ Goto("fit")
       \/ \E e \in Errors :
          /\ calls' = Append(calls, Call("construct", N, RealignKwargs(demo), e, <<>>))
          /\ Raise(e)
          /\ UNCHANGED mrimc
    /\ UNCHANGED <<demo, nyu_func, output_dir, set_order, subjects, yielded,
                   subject_data, plots, gens, outs>>

\* mrimc.fit(subject_data.func)
Fit ==
    /\ pc = "fit"
    /\ \/ /\ calls' = Append(calls, Call("fit", N, subject_data.func, "ok", <<>>))
          /\ mrimc' = [mrimc EXCEPT !.fitted = TRUE]
          /\ Goto("transform")
       \/ \E e \in Errors :
          /\ calls' = Append(calls, Call("fit", N, subject_data.func, e, <<>>))
          /\ Raise(e)
          /\ UNCHANGED mrimc
    /\ UNCHANGED <<demo, nyu_func, output_dir, set_order, subjects, yielded,
                   subject_data, plots, gens, outs>>

\* the realignment-parameter files an engine exposes for k sessions
RpFilenames(id, k) == [j \in 1..k |-> <<id, j>>]

\* Zip with the range started at 1: the first file is never plotted
ZipFromOne(rp) == [i \in 1..(Len(rp) - 1) |-> <<i, rp[i + 1]>>]

\* zip(xrange(len(mrimc._rp_filenames_)), mrimc._rp_filenames_): under
\* Python 2, the interpreter xrange belongs to, a list made before the loop runs
Zip(rp) == [i \in 1..Len(rp) |-> <<i - 1, rp[i]>>]

\* AfterPlot with plt.show() left out of the loop body
AfterPlotNoShow(left) == IF left = <<>> THEN "iter" ELSE "render"

\* where control goes once the inner loop has `left` pairs to plot
AfterPlot(left) == IF left = <<>> THEN "show" ELSE "render"

\* mrimc.transform(subject_data.output_dir, reslice=True, concat=True), then
\* the zip of line 57 over the files the engine now exposes
Transform ==
    /\ pc = "transform"
    /\ \/ \E k \in 0..MaxRp :
          LET rp == RpFilenames(mrimc.id, k)
          IN  /\ calls' = Append(calls, Call("transform", N, subject_data.output_dir, "ok", rp))
              /\ mrimc' = [mrimc EXCEPT !.rp = rp]
              /\ plots' = Zip(rp)
              /\ Goto(AfterPlot(Zip(rp)))
       \/ \E e \in Errors :
          /\ calls' = Append(calls, Call("transform", N, subject_data.output_dir, e, <<>>))
          /\ Raise(e)
          /\ UNCHANGED <<mrimc, plots>>
    /\ UNCHANGED <<demo, nyu_func, output_dir, set_order, subjects, yielded,
                   subject_data, gens, outs>>

\* Title with the sessions counted from one
TitleOneBased(subject_id, sess, dataset_id) == <<subject_id, sess + 1, dataset_id>>

\* title="Estimated motion for %s (session %i) of '%s'" % (subject_id, sess, dataset_id)
Title(subject_id, sess, dataset_id) == <<subject_id, sess, dataset_id>>

\* plot_spm_motion_parameters(rp_filename, title=...), one pass of the inner loop
Render ==
    /\ pc = "render"
    /\ LET sess == Head(plots)[1]
           rp_filename == Head(plots)[2]
           arg == <<rp_filename, Title(subject_data.subject_id, sess, DatasetId(demo))>>
       IN  \/ /\ calls' = Append(calls, Call("render", N, arg, "ok", <<>>))
              /\ plots' = Tail(plots)
              /\ Goto(AfterPlot(Tail(plots)))
           \/ \E e \in Errors :
              /\ calls' = Append(calls, Call("render", N, arg, e, <<>>))
              /\ Raise(e)
              /\ UNCHANGED plots
    /\ UNCHANGED <<demo, nyu_func, output_dir, set_order, subjects, yielded,
                   subject_data, mrimc, gens, outs>>

\* plt.show(): blocks until the figures are dismissed
Show ==
    /\ pc = "show"
    /\ \/ /\ calls' = Append(calls, Call("show", N, <<>>, "ok", <<>>))
          /\ Goto("iter")
       \/ \E e \in Errors :
          /\ calls' = Append(calls, Call("show", N, <<>>, e, <<>>))
          /\ Raise(e)
    /\ UNCHANGED <<demo, nyu_func, output_dir, set_order, subjects, yielded,
                   subject_data, mrimc, plots, gens, outs>>

Next == Fetch \/ Iterate \/ Construct \/ Fit \/ Transform \/ Render \/ Show

Spec == Init /\ [][Next]_vars

\* the interpreter runs one thread and never stops of itself: whenever a step
\* of the program can be taken, one is taken
SpecFair == Spec /\ WF_vars(Next)

\* ------------------------------------------- _demo_runner on a given sequence
\* the longest sequence of records handed to _demo_runner
MaxSubjects == 2

\* records as the docstring describes them: a subject, an existing file, an
\* output directory; two subjects and two directories give equal and different ones
DirectRecords ==
    {SubjectData(<<id>>, StrFunc(<<"/", id>>), dir) : id \in {"a", "b"}, dir \in OutputDirs}

DirectSequences == UNION {[1..n -> DirectRecords] : n \in 0..MaxSubjects}

\* _demo_runner(subjects, dataset_id) called on a sequence of records: no
\* demo function, no fetch, no subject factory
InitDirect ==
    /\ demo = "direct"
    /\ nyu_func = <<>>
    /\ output_dir = <<>>
    /\ set_order = <<>>
    /\ pc = "iter"
    /\ err = "none"
    /\ \E seq \in DirectSequences : subjects = [NewGen(demo, DefaultSession) EXCEPT !.todo = seq]
    /\ yielded = <<>>
    /\ subject_data = NoSubject
    /\ mrimc = NoEngine
    /\ plots = <<>>
    /\ calls = <<>>
    /\ gens = [i \in Invocations |-> NewGen(demo, DefaultSession)]
    /\ outs = [i \in Invocations |-> <<>>]

NextDirect == Iterate \/ Construct \/ Fit \/ Transform \/ Render \/ Show

SpecDirect == InitDirect /\ [][NextDirect]_vars

\* what a directory holds: the engine's transform writes its output under the
\* directory it is given and replaces what is there, so the directory holds
\* the output of the last transform into it that returned (0: none did)
DiskHolds(dir) ==
    LET at == {i \in 1..Len(calls) :
                  calls[i].op = "transform" /\ calls[i].res = "ok" /\ calls[i].arg = dir}
    IN  IF at = {} THEN 0 ELSE calls[CHOOSE i \in at : \A j \in at : j <= i].n

\* ------------------------------------------- subject factories, called directly
\* Three generator objects of one demo's subject_factory over one listing: the
\* first and the third made with the same session, the second with another;
\* their next() calls interleave in every order.
InitFactory ==
    /\ InitEnv
    /\ pc = "idle"
    /\ err = "none"
    /\ subjects = NewGen(demo, DefaultSession)
    /\ yielded = <<>>
    /\ subject_data = NoSubject
    /\ mrimc = NoEngine
    /\ plots = <<>>
    /\ calls = <<>>
    /\ \E s \in 1..MaxSession :
          gens = [i \in Invocations |-> NewGen(demo, IF i = 2 THEN OtherSession(s) ELSE s)]
    /\ outs = [i \in Invocations |-> <<>>]

\* next(g) on the i-th generator object, until it is exhausted or has raised
FactoryNext(i) ==
    /\ gens[i].pc \in {"start", "loop"}
    /\ \E r \in {GenNext(gens[i])} :
           /\ gens' = [gens EXCEPT ![i] = r.gen]
           /\ \/ r.kind = "yield" /\ outs' = [outs EXCEPT ![i] = Append(outs[i], r.rec)]
              \/ r.kind = "stop" /\ outs' = outs
              \/ r.kind = "raise" /\ outs' = outs
    /\ UNCHANGED <<demo, nyu_func, output_dir, set_order, pc, err, subjects, yielded,
                   subject_data, mrimc, plots, calls>>

NextFactory == \E i \in Invocations : FactoryNext(i)

SpecFactory == InitFactory /\ [][NextFactory]_vars

\* ------------------------------------------------ the module run as a program
\* MainOrder with the two middle calls exchanged
MainOrderFslSecond == <<"auditory", "fsl", "multimodal", "nyu">>

\* the calls of the __main__ block, in the order of its lines
MainOrder == <<"auditory", "multimodal", "fsl", "nyu">>

\* the program starts at the first call of the __main__ block; what the NYU
\* dataset holds is read only by the last call
InitMain ==
    /\ demo = MainOrder[1]
    /\ nyu_func = <<>>
    /\ output_dir \in OutputDirs
    /\ set_order = <<>>
    /\ pc = "fetch"
    /\ err = "none"
    /\ subjects = NewGen(demo, DefaultSession)
    /\ yielded = <<>>
    /\ subject_data = NoSubject
    /\ mrimc = NoEngine
    /\ plots = <<>>
    /\ calls = <<>>
    /\ gens = [i \in Invocations |-> NewGen(demo, DefaultSession)]
    /\ outs = [i \in Invocations |-> <<>>]

\* a demo has returned: the next line of the __main__ block calls the next
\* demo, whose _demo_runner starts with a frame and a call log of its own
NextDemo ==
    /\ pc = "returned"
    /\ \E i \in 1..(Len(MainOrder) - 1) : demo = MainOrder[i] /\ demo' = MainOrder[i + 1]
    /\ nyu_func' \in (IF demo' = "nyu" THEN Listings ELSE {<<>>})
    /\ set_order' \in Perms(SubjectIds(nyu_func'))
    /\ pc' = "fetch"
    /\ err' = err
    /\ subjects' = NewGen(demo', DefaultSession)
    /\ yielded' = <<>>
    /\ subject_data' = NoSubject
    /\ mrimc' = NoEngine
    /\ plots' = <<>>
    /\ calls' = <<>>
    /\ UNCHANGED <<output_dir, gens, outs>>

NextMain == Next \/ NextDemo

SpecMain == InitMain /\ [][NextMain]_vars

\* ------------------------------------------------- the calls of a run
\* the calls made for the n-th subject, and their operations
CallsOf(n) == SelectSeq(calls, LAMBDA c : c.n = n)
OpsOf(n) == [i \in 1..Len(CallsOf(n)) |-> CallsOf(n)[i].op]

IsPrefix(a, b) == Len(a) <= Len(b) /\ SubSeq(b, 1, Len(a)) = a

\* the files the engine of the n-th subject exposed, once its transform returned
RpOf(n) ==
    LET at == {i \in 1..Len(CallsOf(n)) : CallsOf(n)[i].op = "transform" /\ CallsOf(n)[i].res = "ok"}
    IN  IF at = {} THEN <<>> ELSE CallsOf(n)[CHOOSE i \in at : TRUE].out

Transformed(n) ==
    \E i \in 1..Len(CallsOf(n)) : CallsOf(n)[i].op = "transform" /\ CallsOf(n)[i].res = "ok"

\* construct, fit, transform, one render per exposed file, show
FullPipeline(n) ==
    <<"construct", "fit", "transform">> \o [j \in 1..Len(RpOf(n)) |-> "render"] \o <<"show">>

\* a subject whose pipeline has ended with the display dismissed
Completed(n) == n < Len(yielded) \/ (n = Len(yielded) /\ pc \in {"iter", "returned"})

\* C1: in a run where no call fails, each subject of the sequence gets one
\* fit, then one transform, then one render per parameter file the engine
\* exposes, the subjects in the order the sequence yields them and the
\* renders in the order of the engine's list.
C1_FitTransformRenderInOrder ==
    err = "none" =>
        /\ \A i \in 1..(Len(calls) - 1) : calls[i].n <= calls[i + 1].n
        /\ \A i \in 1..Len(calls) : calls[i].n \in 1..Len(yielded)
        /\ \A n \in 1..Len(yielded) :
              /\ IF Transformed(n) THEN IsPrefix(OpsOf(n), FullPipeline(n))
                 ELSE IsPrefix(OpsOf(n), <<"construct", "fit", "transform">>)
              /\ Completed(n) => OpsOf(n) = FullPipeline(n)
              /\ \A i \in 1..Len(CallsOf(n)) :
                    /\ CallsOf(n)[i].op = "fit" => CallsOf(n)[i].arg = yielded[n].func
                    /\ CallsOf(n)[i].op = "transform" => CallsOf(n)[i].arg = yielded[n].output_dir
                    /\ CallsOf(n)[i].op = "render" => CallsOf(n)[i].arg[1] = RpOf(n)[i - 3]

\* a run of two subjects that returned, one of them with two parameter files
C1_Witness ==
    /\ pc = "returned" /\ err = "none" /\ Len(yielded) = 2
    /\ Len(RpOf(1)) = 2 /\ Len(RpOf(2)) = 1

\* C2: the pipelines of two subjects never interleave: when the engine of
\* subject N+1 is constructed, the call just before it is the display of
\* subject N, which returned; each finished subject has exactly one display,
\* and it is the last call made for that subject.
C2_NoInterleaving ==
    /\ \A i \in 1..Len(calls), j \in 1..Len(calls) : i < j => calls[i].n <= calls[j].n
    /\ \A i \in 1..Len(calls) :
          (calls[i].op = "construct" /\ calls[i].n > 1) =>
              /\ i > 1
              /\ calls[i - 1].op = "show" /\ calls[i - 1].res = "ok"
              /\ calls[i - 1].n = calls[i].n - 1
    /\ \A n \in 1..Len(yielded) :
          /\ Cardinality({i \in 1..Len(CallsOf(n)) : CallsOf(n)[i].op = "show"}) <= 1
          /\ \A i \in 1..Len(CallsOf(n)) : CallsOf(n)[i].op = "show" => i = Len(CallsOf(n))
          /\ Completed(n) =>
                /\ CallsOf(n) # <<>>
                /\ CallsOf(n)[Len(CallsOf(n))].op = "show"
                /\ CallsOf(n)[Len(CallsOf(n))].res = "ok"
                /\ \A i \in 1..Len(CallsOf(n)) : CallsOf(n)[i].op \in {"construct", "fit", "transform", "render", "show"}

\* the engine of the second subject has been constructed after a first
\* subject with two plots
C2_Witness ==
    /\ Len(yielded) = 2 /\ pc = "fit"
    /\ Len(RpOf(1)) = 2

\* C3: a call that fails is the last call of the run: nothing of that subject
\* or of a later one follows, nothing is called again, and the exception it
\* raised is the one that leaves _demo_runner.
C3_FailureEndsRun ==
    \A i \in 1..Len(calls) :
        calls[i].res # "ok" =>
            /\ i = Len(calls)
            /\ pc = "raised"
            /\ err = calls[i].res

\* a render of the first subject failed while the factory had more to yield
C3_Witness ==
    /\ pc = "raised" /\ calls # <<>>
    /\ calls[Len(calls)].op = "render" /\ calls[Len(calls)].res = "ValueError"
    /\ Len(yielded) = 1 /\ subjects.todo # <<>>

\* no path of the listing holds the marker of the requested session
NoPathOfSession(session) ==
    \A i \in 1..Len(nyu_func) : ~Contains(SessionMarker(session), nyu_func[i])

\* C6: over an empty subject sequence, in particular when no path holds the
\* marker of the requested session, no record is yielded, no engine is
\* constructed, no fit, transform, render or display is called and
\* _demo_runner returns without an error.
C6_EmptySequence ==
    /\ (pc = "returned" /\ yielded = <<>>) =>
          calls = <<>> /\ mrimc = NoEngine /\ err = "none"
    /\ (demo = "nyu" /\ NoPathOfSession(subjects.session)) =>
          /\ yielded = <<>> /\ calls = <<>> /\ mrimc = NoEngine
          /\ subjects.pc # "start" => (pc = "returned" /\ err = "none" /\ subjects.pc = "done")

\* the NYU demo returned over a listing that holds paths, none of session 1
C6_Witness ==
    /\ demo = "nyu" /\ nyu_func # <<>> /\ NoPathOfSession(subjects.session)
    /\ pc = "returned"

\* the path a / b: a and b with one separator between them
Slash(a, b) == IF a # <<>> /\ a[Len(a)] = "/" THEN a \o b ELSE a \o <<"/">> \o b

\* C10: the two-run demo yields one record, its func the list [func1, func2]
\* in that order and its output_dir base_output_dir / subject_id, and the
\* engine made for it is given n_sessions = 2.
C10_MultimodalRecord ==
    demo = "multimodal" =>
        /\ Len(yielded) <= 1
        /\ pc = "returned" => Len(yielded) = 1
        /\ \A n \in 1..Len(yielded) :
              /\ yielded[n].func.isList
              /\ yielded[n].func.paths = <<SpmFunc1, SpmFunc2>>
              /\ yielded[n].output_dir = Slash(output_dir, yielded[n].subject_id)
        /\ \A i \in 1..Len(calls) :
              /\ calls[i].op = "construct" => calls[i].arg = {<<"n_sessions", 2>>}
              /\ calls[i].op = "fit" => calls[i].arg.paths = <<SpmFunc1, SpmFunc2>>

\* the two-run demo ran to its end
C10_Witness ==
    /\ demo = "multimodal" /\ pc = "returned" /\ err = "none"
    /\ \E i \in 1..Len(calls) : calls[i].op = "construct" /\ calls[i].res = "ok"

\* ------------------------------------------- what a factory should yield
\* the components of a path: its text split at the slashes (i is the place
\* read, start the place where the current component began)
RECURSIVE Split(_, _, _, _)
Split(p, i, start, acc) ==
    IF i > Len(p) THEN (IF start < i THEN Append(acc, SubSeq(p, start, i - 1)) ELSE acc)
    ELSE IF p[i] = "/"
         THEN Split(p, i + 1, i + 1, IF start < i THEN Append(acc, SubSeq(p, start, i - 1)) ELSE acc)
         ELSE Split(p, i + 1, start, acc)

Components(p) == Split(p, 1, 1, <<>>)

\* the name of the directory two levels above the file, "" when there is none
GrandParentName(p) ==
    LET c == Components(p) IN IF Len(c) >= 3 THEN c[Len(c) - 2] ELSE <<>>

\* the places of the listing whose path holds the marker of the session
PathsOfSession(session) ==
    {k \in 1..Len(nyu_func) : Contains(SessionMarker(session), nyu_func[k])}

\* the subject identifiers derived from them
DerivedIds(session) == {GrandParentName(nyu_func[k]) : k \in PathsOfSession(session)}

\* how many of them hold the identifier
MatchCount(session, id) ==
    Cardinality({k \in PathsOfSession(session) : Contains(id, nyu_func[k])})

\* the generator object has been run to its end
Finished(i) == gens[i].pc \in {"done", "raised"}

IdsOf(i) == {outs[i][j].subject_id : j \in 1..Len(outs[i])}

\* C4: in the NYU factory every identifier derived from the paths of the
\* session is matched by exactly one of them, or the factory raises in place
\* of yielding a record for it: each yielded identifier has one match, the
\* identifier the factory raised on has not exactly one and has no record, and a
\* factory that ended without raising has yielded every derived identifier.
C4_UniqueMatchOrRaise ==
    \A i \in Invocations :
        gens[i].demo = "nyu" =>
            LET derived == DerivedIds(gens[i].session)
            IN  /\ \A id \in IdsOf(i) :
                      id \in derived /\ MatchCount(gens[i].session, id) = 1
                /\ gens[i].pc = "raised" =>
                      /\ gens[i].subject_id \in derived
                      /\ MatchCount(gens[i].session, gens[i].subject_id) # 1
                      /\ gens[i].subject_id \notin IdsOf(i)
                /\ gens[i].pc = "done" => IdsOf(i) = derived

\* a factory that yielded one subject and then raised on one with two matches
C4_Witness ==
    \E i \in Invocations :
        /\ gens[i].pc = "raised" /\ outs[i] # <<>>
        /\ MatchCount(gens[i].session, gens[i].subject_id) = 2

\* the number of records the claim expects of the i-th generator object
ExpectedCount(i) ==
    IF gens[i].demo = "nyu" THEN Cardinality(DerivedIds(gens[i].session)) ELSE 1

\* C5 as stated: a factory run to its end has yielded as many records as
\* there are distinct identifiers among the paths of the session (1 for the
\* single-subject factories).
C5_CountAsStated == \A i \in Invocations : Finished(i) => Len(outs[i]) = ExpectedCount(i)

\* C5, amended: that number is yielded by a factory that is exhausted without
\* the uniqueness assertion failing; one that raised has yielded fewer.
C5_CountWhenExhausted ==
    \A i \in Invocations :
        LET expected == ExpectedCount(i)
        IN  /\ Len(outs[i]) <= expected
            /\ gens[i].pc = "done" => Len(outs[i]) = expected
            /\ gens[i].pc = "raised" => Len(outs[i]) < expected

\* an exhausted NYU factory that yielded two records
C5_Witness ==
    \E i \in Invocations : gens[i].demo = "nyu" /\ gens[i].pc = "done" /\ Len(outs[i]) = 2

\* no two records of one generator object share subject_id or output_dir,
\* and every func holds a non-empty path
DistinctRecords(i) ==
    /\ \A j \in 1..Len(outs[i]), k \in 1..Len(outs[i]) :
          j # k => /\ outs[i][j].subject_id # outs[i][k].subject_id
                   /\ outs[i][j].output_dir # outs[i][k].output_dir
    /\ \A j \in 1..Len(outs[i]) :
          /\ outs[i][j].func.paths # <<>>
          /\ \A k \in 1..Len(outs[i][j].func.paths) : outs[i][j].func.paths[k] # <<>>

\* C7 as stated: every subject_id is non-empty, no two records share a
\* subject_id or an output_dir, every func is non-empty.
C7_RecordsAsStated ==
    \A i \in Invocations :
        /\ DistinctRecords(i)
        /\ \A j \in 1..Len(outs[i]) : outs[i][j].subject_id # <<>>

\* C7, amended: the subject_id is non-empty when the record's path has a
\* directory two levels above the file; the rest as stated.
C7_RecordsOfNamedSubjects ==
    \A i \in Invocations :
        /\ DistinctRecords(i)
        /\ \A j \in 1..Len(outs[i]) :
              (gens[i].demo = "nyu" /\ Len(Components(outs[i][j].func.paths[1])) < 3)
                  <=> outs[i][j].subject_id = <<>>

\* a factory that yielded two records
C7_Witness ==
    \E i \in Invocations : Len(outs[i]) = 2 /\ gens[i].pc = "done"

\* the multiset of the records of a sequence
BagOf(seq) == [x \in Range(seq) |-> Cardinality({j \in 1..Len(seq) : seq[j] = x})]

ConsistentRecords(i) ==
    \A j \in 1..Len(outs[i]) :
        LET r == outs[i][j]
            path == r.func.paths[1]
            marker == SessionMarker(gens[i].session)
        IN  /\ ~r.func.isList /\ Len(r.func.paths) = 1
            /\ \E k \in 1..Len(nyu_func) : nyu_func[k] = path
            /\ Contains(marker, path)
            /\ r.subject_id = GrandParentName(path)
            /\ r.output_dir = Slash(Slash(output_dir, marker), r.subject_id)

\* the listing of the claim's example, and the same two subjects in the
\* layout of the dataset
ExampleListing ==
    << AbsPath(<<cD, SessionMarker(1), cS1, cFile>>), AbsPath(<<cD, SessionMarker(1), cS2, cFile>>) >>
LayoutListing ==
    << AbsPath(<<cD, SessionMarker(1), cS1, cFunc, cFile>>),
       AbsPath(<<cD, SessionMarker(1), cS2, cFunc, cFile>>) >>

\* two records whose output_dir end in session1/s1 and session1/s2
TwoSubjectDirs(i) ==
    /\ Len(outs[i]) = 2
    /\ \E j \in 1..2 : EndsWith(outs[i][j].output_dir, JoinAll(<<SessionMarker(1), cS1>>))
    /\ \E j \in 1..2 : EndsWith(outs[i][j].output_dir, JoinAll(<<SessionMarker(1), cS2>>))

\* C9 as stated: every record is consistent, and the example listing with
\* session 1 gives the two records.
C9_RecordsAsStated ==
    \A i \in Invocations :
        gens[i].demo = "nyu" =>
            /\ ConsistentRecords(i)
            /\ (nyu_func = ExampleListing /\ gens[i].session = 1 /\ Finished(i)) => TwoSubjectDirs(i)

\* C9, amended: every record is consistent; the example listing gives no
\* record, the factory raises on the identifier "session1" that both of its
\* paths share; the two subjects in the layout <session>/<subject>/func/<file>
\* give the two records.
C9_ConsistentRecords ==
    \A i \in Invocations :
        gens[i].demo = "nyu" =>
            /\ ConsistentRecords(i)
            /\ (nyu_func = ExampleListing /\ gens[i].session = 1 /\ Finished(i)) =>
                  /\ outs[i] = <<>> /\ gens[i].pc = "raised"
                  /\ gens[i].subject_id = SessionMarker(1)
            /\ (nyu_func = LayoutListing /\ gens[i].session = 1 /\ Finished(i)) =>
                  TwoSubjectDirs(i) /\ gens[i].pc = "done"

\* the two subjects in the dataset's layout, both yielded
C9_Witness ==
    /\ nyu_func = LayoutListing /\ gens[1].session = 1
    /\ gens[1].pc = "done" /\ Len(outs[1]) = 2

SequenceLength ==
    IF demo = "nyu" THEN Cardinality(DerivedIds(DefaultSession)) ELSE 1

\* how many calls of an operation the log holds for the n-th subject
CountOf(n, op) == Len(SelectSeq(calls, LAMBDA c : c.n = n /\ c.op = op))

\* C12: if every call returns and every display is dismissed (no call ends in
\* an exception), _demo_runner eventually returns; when it has returned, every
\* subject of the sequence has had its whole pipeline; no subject is ever
\* constructed, fit, transformed or shown twice; and no step follows the return.
C12_RunnerTerminates ==
    /\ [](/\ Len(yielded) <= SequenceLength
          /\ \A n \in 1..Len(yielded) :
                \A op \in {"construct", "fit", "transform", "show"} : CountOf(n, op) <= 1
          /\ pc = "returned" =>
                /\ subjects.pc = "done"
                /\ Len(yielded) = SequenceLength
                /\ \A n \in 1..Len(yielded) : OpsOf(n) = FullPipeline(n))
    /\ [][pc # "returned"]_vars
    /\ ([](err = "none") => <>(pc = "returned"))

\* a run of two subjects has returned
C12_Witness ==
    /\ pc = "returned" /\ err = "none"
    /\ Len(yielded) = 2
    /\ \A n \in 1..2 : CountOf(n, "show") = 1

\* C13: every construct call is given the caller's bundle, the same for every
\* subject; a step that changes the engine in use is the construction of a
\* fresh one (not fitted, exposing no file, its identity never used before);
\* from fit to show the engine in use is the one constructed for the subject
\* in the loop, and the files transform returned, the files left to plot and
\* the files rendered all belong to that engine.
C13_OneEnginePerSubject ==
    /\ [](/\ \A i \in 1..Len(calls) :
                /\ calls[i].op = "construct" =>
                      /\ calls[i].arg = RealignKwargs(demo)
                      /\ \A j \in 1..Len(calls) :
                            calls[j].op = "construct" =>
                               /\ calls[j].arg = calls[i].arg
                               /\ calls[j].n = calls[i].n => j = i
                /\ calls[i].op = "transform" =>
                      \A j \in 1..Len(calls[i].out) : calls[i].out[j][1] = calls[i].n
                /\ calls[i].op = "render" => calls[i].arg[1][1] = calls[i].n
          /\ pc \in {"fit", "transform", "render", "show"} =>
                /\ mrimc.id = Len(yielded)
                /\ mrimc.kwargs = RealignKwargs(demo)
                /\ \A i \in 1..Len(mrimc.rp) : mrimc.rp[i][1] = mrimc.id
                /\ \A i \in 1..Len(plots) : plots[i][2] \in Range(mrimc.rp)
          /\ pc = "fit" => ~mrimc.fitted /\ mrimc.rp = <<>>
          /\ pc \in {"transform", "render", "show"} => mrimc.fitted)
    /\ [][mrimc' # mrimc /\ pc # "construct" =>
             mrimc'.id = mrimc.id /\ mrimc'.kwargs = mrimc.kwargs]_vars
    /\ [][pc = "construct" /\ pc' = "fit" =>
             /\ mrimc'.id > mrimc.id
             /\ mrimc'.id = Len(yielded)
             /\ ~mrimc'.fitted /\ mrimc'.rp = <<>>]_vars

\* the second subject's engine is in use and exposes two files, one rendered
C13_Witness ==
    /\ pc = "render"
    /\ Len(yielded) = 2
    /\ mrimc.id = 2
    /\ Len(mrimc.rp) = 2
    /\ Len(plots) = 1

\* the render calls made for the n-th subject, in the order they were made
RendersOf(n) == SelectSeq(calls, LAMBDA c : c.n = n /\ c.op = "render")

\* C14: for a subject whose engine exposed k files after transform, the i-th
\* render call (counted from 0) is given the i-th file and a title made of
\* the subject's subject_id, the index i and the dataset label of the run;
\* there are never more than k render calls, and exactly k, one per file,
\* once the subject's pipeline has ended.
C14_RenderPerFile ==
    \A n \in 1..Len(yielded) :
        LET renders == RendersOf(n)
            files == RpOf(n)
        IN  /\ Len(renders) <= Len(files)
            /\ \A i \in 0..(Len(renders) - 1) :
                  /\ renders[i + 1].arg[1] = files[i + 1]
                  /\ renders[i + 1].arg[2] = <<yielded[n].subject_id, i, DatasetId(demo)>>
            /\ \A i, j \in 1..Len(renders) : renders[i].arg[1] = renders[j].arg[1] => i = j
            /\ Completed(n) => Len(renders) = Len(files)

\* a subject of the multimodal demo, two files exposed, both rendered, run returned
C14_Witness ==
    /\ demo = "multimodal"
    /\ pc = "returned"
    /\ Len(RpOf(1)) = 2
    /\ Len(RendersOf(1)) = 2
    /\ RendersOf(1)[2].arg[2] = <<<<"s", "u", "b", "0", "0", "1">>, 1, "SPM Multimodal fMRI faces vs scrambled">>

\* the last subject of the run so far whose record carries the directory
LastWith(dir) ==
    CHOOSE n \in 1..Len(yielded) :
        /\ yielded[n].output_dir = dir
        /\ \A m \in 1..Len(yielded) : yielded[m].output_dir = dir => m <= n

\* C15: records that share an output_dir are all taken from the sequence, none
\* passed over; a run stops only because a call ended in an exception; when a
\* later record with the directory of an earlier one is in the loop, the
\* earlier one has had its whole pipeline, its fit on its own func and its
\* transform into that directory; and once the run has returned the directory
\* holds the output of the last record that carries it.
C15_NoCollisionDetection ==
    /\ [](/\ err # "none" => calls # <<>> /\ calls[Len(calls)].res = err
          /\ \A n, m \in 1..Len(yielded) :
                (n < m /\ yielded[n].output_dir = yielded[m].output_dir) =>
                   /\ OpsOf(n) = FullPipeline(n)
                   /\ \A c \in Range(CallsOf(n)) :
                         /\ c.res = "ok"
                         /\ c.op = "fit" => c.arg = yielded[n].func
                         /\ c.op = "transform" => c.arg = yielded[n].output_dir
                   /\ (Completed(m) /\ err = "none") =>
                         /\ OpsOf(m) = FullPipeline(m)
                         /\ \A c \in Range(CallsOf(m)) :
                               c.op = "transform" => c.arg = yielded[n].output_dir
          /\ pc = "returned" =>
                /\ subjects.todo = <<>>
                /\ \A n \in 1..Len(yielded) :
                      DiskHolds(yielded[n].output_dir) = LastWith(yielded[n].output_dir))
    /\ [][yielded' \o subjects'.todo = yielded \o subjects.todo]_vars

\* two different subjects with one output_dir, the run returned, the directory
\* holding the second one's output
C15_Witness ==
    /\ pc = "returned"
    /\ Len(yielded) = 2
    /\ yielded[1].output_dir = yielded[2].output_dir
    /\ yielded[1].subject_id # yielded[2].subject_id
    /\ DiskHolds(yielded[1].output_dir) = 2

\* the identifiers the NYU factory of the run iterates over, in its order
IdsInOrder == SetIter(SubjectIds(SessionFunc(nyu_func, DefaultSession)))

\* the n-th subject has had its whole pipeline, every call of it returned
FullyProcessed(n) ==
    /\ OpsOf(n) = FullPipeline(n)
    /\ Transformed(n)
    /\ \A c \in Range(CallsOf(n)) : c.res = "ok"

\* C16: the generator object handed to _demo_runner advances only at the
\* head of the loop, when every record it has handed over has had its whole
\* pipeline (fit, transform, renders, display); in demo_nyu_rest it has
\* visited exactly the identifiers of the records handed over, plus the one
\* whose assert failed; so when the assert fails on the k-th identifier, the
\* k-1 before it, in the set's order, have been yielded and fully processed.
C16_LazyRecords ==
    /\ [][subjects' # subjects =>
             /\ pc = "iter"
             /\ \A n \in 1..Len(yielded) : FullyProcessed(n)
             /\ Len(yielded') <= Len(yielded) + 1]_vars
    /\ [](demo = "nyu" =>
            /\ subjects.pc \in {"loop", "done"} =>
                  Len(IdsInOrder) - Len(subjects.todo) = Len(yielded)
            /\ subjects.pc = "raised" =>
                  /\ pc = "raised" /\ err = "AssertionError"
                  /\ Len(IdsInOrder) - Len(subjects.todo) = Len(yielded) + 1
                  /\ subjects.subject_id = IdsInOrder[Len(yielded) + 1]
                  /\ \A n \in 1..Len(yielded) :
                        /\ yielded[n].subject_id = IdsInOrder[n]
                        /\ FullyProcessed(n))

\* the assert failed on the second identifier after the first subject was
\* fit, transformed, rendered and displayed
C16_Witness ==
    /\ demo = "nyu"
    /\ subjects.pc = "raised"
    /\ err = "AssertionError"
    /\ Len(yielded) = 1
    /\ FullyProcessed(1)
    /\ Len(RpOf(1)) >= 1

====
